---- MODULE Spec2Model ----
(***************************************************************************)
(* A model of beetsplug/youtubetitle.py: the FromYoutubeTitle plugin.      *)
(*                                                                         *)
(* Strings are sequences of one-character strings, so that searching,      *)
(* replacing and trimming are computed character by character.  The        *)
(* alphabet holds no line terminator: "." matches every character of it    *)
(* and "$" matches only at the end.                                        *)
(***************************************************************************)
EXTENDS Integers, Sequences, FiniteSets, TLC

VARIABLES
    infer_album,    \* self.infer_album  (option parent_is_album)
    infer_artist,   \* self.infer_artist (option parent_parent_is_artist)
    album_cache,    \* lru_cache of remove_album_name_pattern, least recent first
    artist_cache,   \* lru_cache of remove_artist_name_pattern, least recent first
    album_uses,     \* history: every album name requested, least recent first
    artist_uses,    \* history: every artist name requested, least recent first
    call,           \* the last call: the function and its arguments
    ret             \* what that call returned or did

vars == <<infer_album, infer_artist, album_cache, artist_cache,
          album_uses, artist_uses, call, ret>>

-----------------------------------------------------------------------------
(* Characters and strings *)

\* the lower-case form of each upper-case letter
LowerOf == [A |-> "a", B |-> "b", C |-> "c", D |-> "d", E |-> "e", F |-> "f",
            G |-> "g", H |-> "h", I |-> "i", J |-> "j", K |-> "k", L |-> "l",
            M |-> "m", N |-> "n", O |-> "o", P |-> "p", Q |-> "q", R |-> "r",
            S |-> "s", T |-> "t", U |-> "u", V |-> "v", W |-> "w", X |-> "x",
            Y |-> "y", Z |-> "z"]

\* (?i): characters are compared after case folding
Fold(c) == IF c \in DOMAIN LowerOf THEN LowerOf[c] ELSE c

\* \s, and what str.strip() removes
IsSpace(c) == c \in {" ", "\t"}

\* [\(\[\{]
Openers == {"(", "[", "{"}

\* [\)\]\}]
Closers == {")", "]", "}"}

\* [-_\|]
Separators == {"-", "_", "|"}

\* the element of a pattern that stands for \s
WS == "\\s"

\* one element of a pattern against one character, case-insensitively
ElemMatches(e, c) == IF e = WS THEN IsSpace(c) ELSE Fold(e) = Fold(c)

\* a sequence of literal elements matches s at position i
MatchAt(pat, s, i) ==
    /\ i >= 1
    /\ i + Len(pat) - 1 <= Len(s)
    /\ \A k \in 1..Len(pat) : ElemMatches(pat[k], s[i + k - 1])

Min(S) == CHOOSE x \in S : \A y \in S : x <= y

Max(S) == CHOOSE x \in S : \A y \in S : x >= y

\* the least position of a set of positions, 0 when there is none
First(S) == IF S = {} THEN 0 ELSE Min(S)

\* the greatest position of a set of positions, 0 when there is none
Last(S) == IF S = {} THEN 0 ELSE Max(S)

\* s[a..b], empty when b < a
Slice(s, a, b) == IF b < a THEN <<>> ELSE SubSeq(s, a, b)

\* str.find(old, from): the first position >= from at which old occurs, or 0
FindFrom(s, old, from) ==
    First({i \in from..(Len(s) - Len(old) + 1) :
              \A k \in 1..Len(old) : s[i + k - 1] = old[k]})

RECURSIVE ReplaceFrom(_, _, _)
\* the rest of str.replace once the next occurrence is known to be at i
ReplaceAt(s, old, from, i) ==
    IF i = 0 THEN Slice(s, from, Len(s))
    ELSE Slice(s, from, i - 1) \o ReplaceFrom(s, old, i + Len(old))

ReplaceFrom(s, old, from) == ReplaceAt(s, old, from, FindFrom(s, old, from))

\* str.replace(old, ""): every non-overlapping occurrence of old, left to
\* right, is removed; an empty old removes nothing
Replace(s, old) == IF old = <<>> THEN s ELSE ReplaceFrom(s, old, 1)

StripTo(s, keep) ==
    IF keep = {} THEN <<>> ELSE SubSeq(s, Min(keep), Max(keep))

\* str.strip()
Strip(s) == StripTo(s, {i \in 1..Len(s) : ~IsSpace(s[i])})

-----------------------------------------------------------------------------
(* Patterns.  A pattern is a record; Search(p, s) is p.search(s): whether   *)
(* p matches somewhere in s and, for the leftmost match, where it starts    *)
(* and the text of its group "junk".                                        *)

NoMatch == [found |-> FALSE, start |-> 0, junk |-> <<>>]

Found(s, a, b) == [found |-> TRUE, start |-> a, junk |-> Slice(s, a, b)]

\* (?i)(?P<junk>[\(\[\{].*?(?:alt1|alt2|...).*?[\)\]\}])
BracketPattern(alts) == [kind |-> "bracket", alts |-> alts, name |-> <<>>]

\* the first closer at or after position from, or 0
FirstCloser(s, from) == First({k \in from..Len(s) : s[k] \in Closers})

\* the ways the bracket pattern matches s from an opener at i: keyword
\* alternative h[2] at position h[1], with a closer somewhere after it
BracketMatches(alts, s, i) ==
    IF s[i] \notin Openers THEN {}
    ELSE {h \in ((i + 1)..Len(s)) \X (1..Len(alts)) :
            /\ MatchAt(alts[h[2]], s, h[1])
            /\ FirstCloser(s, h[1] + Len(alts[h[2]])) # 0}

\* both .*? are lazy: the earliest keyword, there the first alternative
FirstHit(hs) ==
    CHOOSE h \in hs :
        \A g \in hs : h[1] < g[1] \/ (h[1] = g[1] /\ h[2] <= g[2])

\* the match from the opener at i with keyword hit h: up to the first closer
BracketSpan(alts, s, i, h) ==
    Found(s, i, FirstCloser(s, h[1] + Len(alts[h[2]])))

BracketFrom(alts, s, i) ==
    IF i = 0 THEN NoMatch
    ELSE BracketSpan(alts, s, i, FirstHit(BracketMatches(alts, s, i)))

\* the leftmost opener from which the pattern matches wins
SearchBracket(alts, s) ==
    BracketFrom(alts, s, First({i \in 1..Len(s) : BracketMatches(alts, s, i) # {}}))

AlbumFrom(s, n, i) == IF i = 0 THEN NoMatch ELSE Found(s, i, i + n - 1)

\* (?i)(?P<junk>\(NAME\)), NAME escaped: a literal
SearchAlbum(name, s) ==
    AlbumFrom(s, Len(name) + 2,
              First({i \in 1..Len(s) : MatchAt(<<"(">> \o name \o <<")">>, s, i)}))

\* where \(?NAME matches from position i ends (the position after it), the
\* parenthesis tried first; 0 when it does not match at i
ArtistBodyEnd(name, s, i) ==
    IF i <= Len(s) /\ s[i] = "(" /\ MatchAt(name, s, i + 1)
    THEN i + 1 + Len(name)
    ELSE IF MatchAt(name, s, i) THEN i + Len(name) ELSE 0

\* \)? takes the closing parenthesis when it is there
ArtistSpan(s, i, e) ==
    IF e <= Len(s) /\ s[e] = ")" THEN Found(s, i, e) ELSE Found(s, i, e - 1)

ArtistFrom(name, s, i) ==
    IF i = 0 THEN NoMatch ELSE ArtistSpan(s, i, ArtistBodyEnd(name, s, i))

\* (?i)(?P<junk>\(?NAME\)?), NAME escaped: a literal
SearchArtist(name, s) ==
    ArtistFrom(name, s,
               First({i \in 1..(Len(s) + 1) : ArtistBodyEnd(name, s, i) # 0}))

Search(p, s) ==
    CASE p.kind = "bracket" -> SearchBracket(p.alts, s)
      [] p.kind = "album"   -> SearchAlbum(p.name, s)
      [] p.kind = "artist"  -> SearchArtist(p.name, s)

YOUTUBE_TITLE_JUNK == <<
    BracketPattern(<<<<"E","x","p","l","i","c","i","t">>,
                     <<"C","l","e","a","n">>,
                     <<"P","a","r","e","n","t","a","l",WS,"A","d","v","i","s","o","r","y">>>>),
    BracketPattern(<<<<"H","Q">>,
                     <<"H","D">>,
                     <<"C","D","Q">>>>),
    BracketPattern(<<<<"A","u","d","i","o">>>>),
    BracketPattern(<<<<"A","l","b","u","m">>>>),
    BracketPattern(<<<<"S","o","n","g">>>>),
    BracketPattern(<<<<"V","i","d","e","o">>>>),
    BracketPattern(<<<<"L","y","r","i","c">>>>),
    BracketPattern(<<<<"V","i","s","u","a","l","i","z","e","r">>>>),
    BracketPattern(<<<<"i","T","u","n","e","s">>>>),
    BracketPattern(<<<<"O","f","f","i","c","i","a","l">>>>),
    BracketPattern(<<<<"O","r","i","g","i","n","a","l">>>>),
    BracketPattern(<<<<"V","e","r","s","i","o","n">>>>),
    BracketPattern(<<<<"P","r","o","d","u","c","e","d",WS,"B","y">>,
                     <<"P","r","o","d",".",WS,"B","y">>,
                     <<"P","r","o","d",WS,"B","y">>>>)
>>

AllSpace(s, a, b) == \A k \in a..b : IsSpace(s[k])

NoTitle == [found |-> FALSE, title |-> <<>>]

\* greedy: the greatest first number, then the greatest second
Greediest(ways) ==
    CHOOSE w \in ways :
        \A v \in ways : v[1] < w[1] \/ (v[1] = w[1] /\ v[2] <= w[2])

LeadingTitle(s, ways) ==
    IF ways = {} THEN NoTitle
    ELSE [found |-> TRUE, title |-> Slice(s, Greediest(ways)[2] + 1, Len(s))]

\* EXTRA_STRIP_PATTERNS[0].match(s): ^\s*[-_\|]\s*(?P<title>.+)$
\* w[1] spaces, the separator, spaces up to w[2], then a title of at least
\* one character; both \s* are greedy
LeadingSeparator(s) ==
    LeadingTitle(s, {w \in (0..Len(s)) \X (1..Len(s)) :
                        /\ w[1] < w[2] /\ w[2] < Len(s)
                        /\ AllSpace(s, 1, w[1])
                        /\ s[w[1] + 1] \in Separators
                        /\ AllSpace(s, w[1] + 2, w[2])})

TrailingTitle(s, ways) ==
    IF ways = {} THEN NoTitle
    ELSE [found |-> TRUE, title |-> Slice(s, 1, Greediest(ways)[1])]

\* EXTRA_STRIP_PATTERNS[1].match(s): ^(?P<title>.+)\s*[-_\|]\s*$
\* the title is s[1..w[1]], then spaces, the separator at w[2], spaces to
\* the end; .+ is greedy, so the longest title wins
TrailingSeparator(s) ==
    TrailingTitle(s, {w \in (1..Len(s)) \X (1..Len(s)) :
                         /\ w[1] < w[2]
                         /\ AllSpace(s, w[1] + 1, w[2] - 1)
                         /\ s[w[2]] \in Separators
                         /\ AllSpace(s, w[2] + 1, Len(s))})

EXTRA_STRIP_PATTERNS == <<"leading", "trailing">>

ExtraMatch(x, s) ==
    IF x = "leading" THEN LeadingSeparator(s) ELSE TrailingSeparator(s)

-----------------------------------------------------------------------------
(* _replace_junk *)

\* Replaced with count=1: only the first occurrence of the junk is removed
ReplacedOnce(new_title, match_obj) ==
    IF ~match_obj.found \/ FindFrom(new_title, match_obj.junk, 1) = 0
    THEN new_title
    ELSE Slice(new_title, 1, FindFrom(new_title, match_obj.junk, 1) - 1)
         \o Slice(new_title,
                  FindFrom(new_title, match_obj.junk, 1) + Len(match_obj.junk),
                  Len(new_title))

\* new_title.replace(match_obj.group("junk"), "")
Replaced(new_title, match_obj) ==
    IF match_obj.found THEN Replace(new_title, match_obj.junk) ELSE new_title

\* one iteration of the loop over the junk patterns, as a record of what it
\* saw and did
Iteration(new_title, pattern, match_obj) ==
    [before |-> new_title, pattern |-> pattern, found |-> match_obj.found,
     start |-> match_obj.start, junk |-> match_obj.junk,
     after |-> Replaced(new_title, match_obj)]

JunkStep(new_title, pattern) ==
    Iteration(new_title, pattern, Search(pattern, new_title))

RECURSIVE JunkLoop(_, _, _)
JunkRest(step, patterns, k) ==
    <<step>> \o JunkLoop(step.after, patterns, k + 1)

\* the loop over the junk patterns from pattern k on: its iterations
JunkLoop(new_title, patterns, k) ==
    IF k > Len(patterns) THEN <<>>
    ELSE JunkRest(JunkStep(new_title, patterns[k]), patterns, k)

ExtraPick(new_title, match_obj) ==
    IF match_obj.found THEN match_obj.title ELSE new_title

\* one iteration of the loop over EXTRA_STRIP_PATTERNS
ExtraStep(new_title, x) == ExtraPick(new_title, ExtraMatch(x, new_title))

RECURSIVE ExtraLoop(_, _)
ExtraLoop(new_title, k) ==
    IF k > Len(EXTRA_STRIP_PATTERNS) THEN new_title
    ELSE ExtraLoop(ExtraStep(new_title, EXTRA_STRIP_PATTERNS[k]), k + 1)

\* new_title when the first loop ends
AfterJunk(title, steps) ==
    IF steps = <<>> THEN title ELSE steps[Len(steps)].after

\* Finish without the strip() between the two loops
FinishUntrimmed(new_title) == ExtraLoop(new_title, 1)

\* new_title.strip(), then the loop over EXTRA_STRIP_PATTERNS
Finish(new_title) == ExtraLoop(Strip(new_title), 1)

\* a run of _replace_junk: the value returned and the iterations made
Ran(title, steps) ==
    [value |-> Finish(AfterJunk(title, steps)), steps |-> steps]

ReplaceJunkRun(title, patterns) == Ran(title, JunkLoop(title, patterns, 1))

_replace_junk(title, patterns) == ReplaceJunkRun(title, patterns).value

-----------------------------------------------------------------------------
(* Paths.  Path(displayable_path(item.path)): the text of the path is split *)
(* at "/", and empty and "." components are dropped.                        *)

KeepPart(part, rest) ==
    IF part = <<>> \/ part = <<".">> THEN rest ELSE <<part>> \o rest

RECURSIVE SplitFrom(_, _)
SplitAt(s, from, stop) ==
    KeepPart(Slice(s, from, stop - 1), SplitFrom(s, stop + 1))

StopOf(s, i) == IF i = 0 THEN Len(s) + 1 ELSE i

SplitFrom(s, from) ==
    IF from > Len(s) + 1 THEN <<>>
    ELSE SplitAt(s, from, StopOf(s, FindFrom(s, <<"/">>, from)))

Path(s) == SplitFrom(s, 1)

\* PurePath.name: the last component, "" when there is none
Name(p) == IF p = <<>> THEN <<>> ELSE p[Len(p)]

\* PurePath.parent
Parent(p) == IF p = <<>> THEN <<>> ELSE SubSeq(p, 1, Len(p) - 1)

\* the name up to the dot at i, unless that dot is its first or last
\* character, or there is none
CutAt(name, i) ==
    IF 1 < i /\ i < Len(name) THEN SubSeq(name, 1, i - 1) ELSE name

\* PurePath.stem: the name without its last suffix
Stem(p) == CutAt(Name(p), Last({i \in 1..Len(Name(p)) : Name(p)[i] = "."}))

track_title_from_path(p) == Stem(p)

album_name_from_path(p) == Name(Parent(p))

\* artist_name_from_path one level too low: the parent, not its parent
ArtistIsParent(p) == Name(Parent(p))

artist_name_from_path(p) == Name(Parent(Parent(p)))

-----------------------------------------------------------------------------
(* The two memoized pattern builders.  A cache is the sequence of its      *)
(* entries [key, value], the least recently used first.                    *)

maxsize == 64

\* re.compile("(?i)(?P<junk>\\({0}\\))".format(re.escape(album_name)))
AlbumPattern(album_name) ==
    [kind |-> "album", alts |-> <<>>, name |-> album_name]

\* re.compile("(?i)(?P<junk>\\(?{0}\\)?)".format(re.escape(artist_name)))
ArtistPattern(artist_name) ==
    [kind |-> "artist", alts |-> <<>>, name |-> artist_name]

\* the position of key in the cache, or 0
CacheIndex(cache, key) == First({i \in 1..Len(cache) : cache[i].key = key})

Without(cache, i) == Slice(cache, 1, i - 1) \o Slice(cache, i + 1, Len(cache))

\* room for one more entry: a full cache drops its least recently used one
Evict(cache) == IF Len(cache) >= maxsize THEN Tail(cache) ELSE cache

\* Hit without the move to the most recent place: first in, first out
HitInPlace(cache, i) ==
    [value |-> cache[i].value, hit |-> TRUE, cache |-> cache]

\* a hit returns the stored value and makes the entry the most recent
Hit(cache, i) ==
    [value |-> cache[i].value, hit |-> TRUE,
     cache |-> Append(Without(cache, i), cache[i])]

\* a miss stores the value just built, as the most recent entry
Miss(cache, key, built) ==
    [value |-> built, hit |-> FALSE,
     cache |-> Append(Evict(cache), [key |-> key, value |-> built])]

LruAt(cache, key, built, i) ==
    IF i # 0 THEN Hit(cache, i) ELSE Miss(cache, key, built)

\* a call through lru_cache(maxsize=64)
LruCall(cache, key, built) == LruAt(cache, key, built, CacheIndex(cache, key))

remove_album_name_pattern(cache, album_name) ==
    LruCall(cache, album_name, AlbumPattern(album_name))

remove_artist_name_pattern(cache, artist_name) ==
    LruCall(cache, artist_name, ArtistPattern(artist_name))

\* history: the names requested so far, the least recently requested first
Used(uses, name) == SelectSeq(uses, LAMBDA n : n # name) \o <<name>>

-----------------------------------------------------------------------------
(* The plugin.  An item is a record [path, title, album, artist]; an empty  *)
(* field is the empty string.  cfg is [infer_album, infer_artist]; caches  *)
(* is [album, artist].                                                     *)

Asked(r) == [patterns |-> <<r.value>>, hits |-> <<r.hit>>, cache |-> r.cache]

NotAsked(cache) == [patterns |-> <<>>, hits |-> <<>>, cache |-> cache]

\* if self.infer_album: append remove_album_name_pattern(album_name)
WithAlbum(cfg, cache, path) ==
    IF cfg.infer_album
    THEN Asked(remove_album_name_pattern(cache, album_name_from_path(path)))
    ELSE NotAsked(cache)

\* if self.infer_artist: append remove_artist_name_pattern(artist_name)
WithArtist(cfg, cache, path) ==
    IF cfg.infer_artist
    THEN Asked(remove_artist_name_pattern(cache, artist_name_from_path(path)))
    ELSE NotAsked(cache)

Specific(al, ar) ==
    [patterns |-> al.patterns \o ar.patterns,
     hits |-> al.hits \o ar.hits,
     caches |-> [album |-> al.cache, artist |-> ar.cache]]

\* specific_junk_patterns, and the caches after building them
SpecificJunkPatterns(cfg, caches, path) ==
    Specific(WithAlbum(cfg, caches.album, path),
             WithArtist(cfg, caches.artist, path))

CleanTitleOf(raw_title, specific) ==
    [title  |-> _replace_junk(raw_title, specific.patterns \o YOUTUBE_TITLE_JUNK),
     raw_title |-> raw_title,
     patterns |-> specific.patterns,
     hits |-> specific.hits,
     caches |-> specific.caches]

CleanTitleAt(cfg, caches, path) ==
    CleanTitleOf(track_title_from_path(path),
                 SpecificJunkPatterns(cfg, caches, path))

\* get_clean_title: the title, and the caches after the call
get_clean_title(cfg, caches, item) == CleanTitleAt(cfg, caches, Path(item.path))

\* get_album with the directory name passed through the junk catalog
CleanedAlbum(item) ==
    _replace_junk(album_name_from_path(Path(item.path)), YOUTUBE_TITLE_JUNK)

get_album(item) == album_name_from_path(Path(item.path))

get_artist(item) == artist_name_from_path(Path(item.path))

\* the two conditional assignments of album and artist, after the title
Inferred(cfg, item, title, caches) ==
    [item   |-> [path   |-> item.path,
                 title  |-> title,
                 album  |-> IF cfg.infer_album /\ item.album = <<>>
                            THEN get_album(item) ELSE item.album,
                 artist |-> IF cfg.infer_artist /\ item.artist = <<>>
                            THEN get_artist(item) ELSE item.artist],
     caches |-> caches]

Titled(cfg, item, clean) == Inferred(cfg, item, clean.title, clean.caches)

\* CleanItem without the test of item.title: the title is always assigned
CleanItemAlways(cfg, caches, item) ==
    Titled(cfg, item, get_clean_title(cfg, caches, item))

\* the body of the loop of clean_youtube_metadata, for one item
CleanItem(cfg, caches, item) ==
    IF item.title = <<>>
    THEN Titled(cfg, item, get_clean_title(cfg, caches, item))
    ELSE Inferred(cfg, item, item.title, caches)

Joined(item, rest) ==
    [items |-> <<item>> \o rest.items, caches |-> rest.caches]

RECURSIVE CleanItems(_, _, _)
CleanRest(cfg, first, items) ==
    Joined(first.item, CleanItems(cfg, first.caches, Tail(items)))

\* the loop over the items, in order
CleanItems(cfg, caches, items) ==
    IF items = <<>> THEN [items |-> <<>>, caches |-> caches]
    ELSE CleanRest(cfg, CleanItem(cfg, caches, Head(items)), items)

\* whether the handler takes [task.item] (or task.items)
TakesItem(t) == t.singleton \/ ~t.is_album

\* the items clean_youtube_metadata works on
TaskItems(t) == IF TakesItem(t) THEN <<t.item>> ELSE t.items

\* the task object once its items were worked on
Updated(t, items) ==
    IF TakesItem(t) THEN [t EXCEPT !.item = items[1]]
    ELSE [t EXCEPT !.items = items]

\* history: the items get_clean_title is called for, in order
Untitled(items) == SelectSeq(items, LAMBDA i : i.title = <<>>)

\* history: the names the calls of get_clean_title ask each builder for
AlbumNamesAsked(wanted, items) ==
    IF ~wanted THEN <<>>
    ELSE [k \in 1..Len(items) |-> album_name_from_path(Path(items[k].path))]

ArtistNamesAsked(wanted, items) ==
    IF ~wanted THEN <<>>
    ELSE [k \in 1..Len(items) |-> artist_name_from_path(Path(items[k].path))]

RECURSIVE UsedAll(_, _)
UsedAll(uses, names) ==
    IF names = <<>> THEN uses ELSE UsedAll(Used(uses, Head(names)), Tail(names))

Cfg == [infer_album |-> infer_album, infer_artist |-> infer_artist]

Caches == [album |-> album_cache, artist |-> artist_cache]

NoCall == [fn |-> "none"]

\* all strings of at most n tokens
RECURSIVE Strings(_, _)
Longer(shorter, tokens) == shorter \cup {s \o t : s \in shorter, t \in tokens}

Strings(tokens, n) ==
    IF n = 0 THEN {<<>>} ELSE Longer(Strings(tokens, n - 1), tokens)

\* the state after __init__: the two options read, the caches empty
Configured ==
    /\ infer_album \in BOOLEAN
    /\ infer_artist \in BOOLEAN
    /\ album_cache = <<>>
    /\ artist_cache = <<>>
    /\ album_uses = <<>>
    /\ artist_uses = <<>>

-----------------------------------------------------------------------------
(* Spec: the host delivers import tasks to clean_youtube_metadata *)

Kept == <<"K","e","p","t">>

Fields == {[title |-> <<>>, album |-> <<>>, artist |-> <<>>],
           [title |-> Kept, album |-> <<>>, artist |-> <<>>],
           [title |-> <<>>, album |-> Kept, artist |-> Kept],
           [title |-> Kept, album |-> Kept, artist |-> Kept]}

\* files of one album directory, whose name is itself bracketed junk
AlbumPaths == {<<"A","b","/","(","H","D",")","/","A","b"," ","-"," ","x"," ","(","A","u","d","i","o",")",".","m","p","3">>,
               <<"A","b","/","(","H","D",")","/","y"," ","(","(","h","d",")",")",".","m","p","3">>}

\* files with no artist directory, or with no directory at all
ShallowPaths == {<<"(","H","D",")","/","(","y",")"," ","[","V","i","d","e","o","]",".","m","p","3">>,
                 <<"z"," ","(","a",")"," ","(","H","D",")",".","m","p","3">>}

ItemsOf(paths, fields) ==
    {[path |-> p, title |-> f.title, album |-> f.album, artist |-> f.artist] :
        p \in paths, f \in fields}

Items == ItemsOf(AlbumPaths \cup ShallowPaths, Fields)

AlbumItems == ItemsOf(AlbumPaths, {f \in Fields : f.album = f.title})

\* a singleton task, or a task that is not an album, holds one item; an
\* album task holds a list of items
Tasks ==
    {[singleton |-> sg, is_album |-> ia, item |-> i, items |-> <<>>] :
        sg \in BOOLEAN, ia \in BOOLEAN, i \in Items}
    \cup {[singleton |-> FALSE, is_album |-> TRUE, item |-> a, items |-> <<a>>] :
            a \in AlbumItems}
    \cup {[singleton |-> FALSE, is_album |-> TRUE, item |-> a, items |-> <<a, b>>] :
            a \in AlbumItems, b \in AlbumItems}

Init ==
    /\ Configured
    /\ call = NoCall
    /\ ret = NoCall

Handled(t, done) ==
    /\ call' = [fn |-> "clean_youtube_metadata", task |-> t]
    /\ ret' = [fn |-> "clean_youtube_metadata", task |-> Updated(t, done.items)]
    /\ album_cache' = done.caches.album
    /\ artist_cache' = done.caches.artist
    /\ album_uses' = UsedAll(album_uses,
                        AlbumNamesAsked(infer_album, Untitled(TaskItems(t))))
    /\ artist_uses' = UsedAll(artist_uses,
                        ArtistNamesAsked(infer_artist, Untitled(TaskItems(t))))
    /\ UNCHANGED <<infer_album, infer_artist>>

\* the handler of import_task_start; the task object is updated in place
clean_youtube_metadata(t) == Handled(t, CleanItems(Cfg, Caches, TaskItems(t)))

Next == \E t \in Tasks : clean_youtube_metadata(t)

Spec == Init /\ [][Next]_vars

-----------------------------------------------------------------------------
(* SpecReplaceJunk: one call of _replace_junk, on a title and a list of   *)
(* patterns drawn from bounded sets                                        *)

MaxTokens == 4

Defaults == Configured /\ infer_album /\ infer_artist

TitleTokens == {<<" ">>, <<"-">>, <<"x">>, <<"(">>, <<")">>,
                <<"(","A","u","d","i","o",")">>, <<"a","b">>}

Titles == Strings(TitleTokens, MaxTokens)

PatternLists ==
    {<<>>,
     YOUTUBE_TITLE_JUNK,
     <<AlbumPattern(<<"x">>), ArtistPattern(<<"a","b">>)>> \o YOUTUBE_TITLE_JUNK}

InitReplaceJunk ==
    /\ Defaults
    /\ call \in [fn : {"_replace_junk"}, title : Titles, patterns : PatternLists]
    /\ ret = NoCall

Returned(run) ==
    /\ ret' = [fn |-> "_replace_junk", value |-> run.value, steps |-> run.steps]
    /\ UNCHANGED <<infer_album, infer_artist, album_cache, artist_cache,
                   album_uses, artist_uses, call>>

Run_replace_junk ==
    /\ call.fn = "_replace_junk"
    /\ ret = NoCall
    /\ Returned(ReplaceJunkRun(call.title, call.patterns))

NextReplaceJunk == Run_replace_junk

SpecReplaceJunk == InitReplaceJunk /\ [][NextReplaceJunk]_vars

-----------------------------------------------------------------------------
(* get_clean_title as a step: the caches and the histories move with it *)

NewItem(path) == [path |-> path, title |-> <<>>, album |-> <<>>, artist |-> <<>>]

GotCleanTitle(item, clean) ==
    /\ call' = [fn |-> "get_clean_title", item |-> item]
    /\ ret' = [fn |-> "get_clean_title", value |-> clean.title,
               raw_title |-> clean.raw_title, patterns |-> clean.patterns,
               hits |-> clean.hits]
    /\ album_cache' = clean.caches.album
    /\ artist_cache' = clean.caches.artist
    /\ album_uses' = UsedAll(album_uses, AlbumNamesAsked(infer_album, <<item>>))
    /\ artist_uses' = UsedAll(artist_uses, ArtistNamesAsked(infer_artist, <<item>>))
    /\ UNCHANGED <<infer_album, infer_artist>>

GetCleanTitle(item) == GotCleanTitle(item, get_clean_title(Cfg, Caches, item))

-----------------------------------------------------------------------------
(* SpecCleanTitle: one call of get_clean_title, on a path drawn from a    *)
(* bounded set, under each setting of the two options                     *)

Ext == <<".","m","p","3">>

OfficialAudio == <<" ","(","O","f","f","i","c","i","a","l"," ","A","u","d","i","o",")">>

FileTokens == {<<" ">>, <<"x">>, <<"(">>, <<")">>, OfficialAudio}

Dirs == {<<>>, <<"A","l","b","u","m","/">>, <<"A","r","t","i","s","t","/","A","l","b","u","m","/">>}

FilePaths == {d \o f \o Ext : d \in Dirs, f \in Strings(FileTokens, MaxTokens)}

InitCleanTitle ==
    /\ Configured
    /\ call \in [fn : {"get_clean_title"}, item : {NewItem(p) : p \in FilePaths}]
    /\ ret = NoCall

Run_get_clean_title ==
    /\ call.fn = "get_clean_title"
    /\ ret = NoCall
    /\ GetCleanTitle(call.item)

NextCleanTitle == Run_get_clean_title

SpecCleanTitle == InitCleanTitle /\ [][NextCleanTitle]_vars

-----------------------------------------------------------------------------
(* SpecCache: get_clean_title, the caller of the two builders, is called  *)
(* for file after file.  File k lies in artist directory k and album      *)
(* directory k; each call is for file 1 again or for the next new file.   *)

NumNames == 66

Digits == <<"0", "1", "2", "3", "4", "5", "6", "7", "8", "9">>

\* the name of directory k: its two digits
NameOf(k) == <<Digits[(k \div 10) + 1], Digits[(k % 10) + 1]>>

\* file k: k/k/x (k).mp3
PathOf(k) ==
    NameOf(k) \o <<"/">> \o NameOf(k) \o <<"/">>
    \o <<"x", " ", "(">> \o NameOf(k) \o <<")">> \o Ext

\* how many files were asked for so far
Asked_so_far == IF infer_album THEN Len(album_uses) ELSE Len(artist_uses)

InitCache ==
    /\ Configured
    /\ call = NoCall
    /\ ret = NoCall

AskAgain == GetCleanTitle(NewItem(PathOf(1)))

AskNew ==
    /\ Asked_so_far < NumNames
    /\ GetCleanTitle(NewItem(PathOf(Asked_so_far + 1)))

NextCache == AskAgain \/ AskNew

SpecCache == InitCache /\ [][NextCache]_vars

-----------------------------------------------------------------------------
(* The properties checked *)

Handler == ret.fn = "clean_youtube_metadata"

\* a field that was set before the handler ran has the same value after it
FieldsKept(before, after) ==
    /\ before.title # <<>> => after.title = before.title
    /\ before.album # <<>> => after.album = before.album
    /\ before.artist # <<>> => after.artist = before.artist

\* C1: the handler never overwrites a non-empty title, album or artist:
\* every item of the task, whether the handler works on it or not, keeps
\* each field that was non-empty when the task was delivered.
C1_NonEmptyFieldsKept ==
    Handler =>
        /\ FieldsKept(call.task.item, ret.task.item)
        /\ Len(ret.task.items) = Len(call.task.items)
        /\ \A k \in 1..Len(call.task.items) :
              FieldsKept(call.task.items[k], ret.task.items[k])

\* C1's case: a task whose item had a title and no album, handled with
\* album inference on, so that the handler wrote the album beside the title
C1_Witness ==
    /\ Handler
    /\ TakesItem(call.task)
    /\ call.task.item.title = Kept
    /\ call.task.item.album = <<>>
    /\ ret.task.item.album # <<>>

NoCaches == [album |-> <<>>, artist |-> <<>>]

\* the directory names of the files of AlbumPaths, as they are on disk
HDDir == <<"(","H","D",")">>

AbDir == <<"A","b">>

\* what C2 says of one item the handler works on
FieldsFilled(before, after) ==
    /\ before.title = <<>> =>
          after.title = get_clean_title(Cfg, NoCaches, before).title
    /\ (before.album = <<>> /\ infer_album) =>
          /\ after.album = album_name_from_path(Path(before.path))
          /\ before.path \in AlbumPaths => after.album = HDDir
    /\ (before.album = <<>> /\ ~infer_album) => after.album = <<>>
    /\ (before.artist = <<>> /\ infer_artist) =>
          /\ after.artist = artist_name_from_path(Path(before.path))
          /\ before.path \in AlbumPaths => after.artist = AbDir
    /\ (before.artist = <<>> /\ ~infer_artist) => after.artist = <<>>

\* C2: for the single item of a singleton or non-album task and for every
\* item of an album task, an empty title becomes the clean title, an empty
\* album becomes the raw parent directory name exactly when parent_is_album
\* is on, an empty artist the raw grandparent directory name exactly when
\* parent_parent_is_artist is on; the names are written as they are, junk
\* included.
C2_EmptyFieldsFilled ==
    Handler =>
        IF call.task.singleton \/ ~call.task.is_album
        THEN FieldsFilled(call.task.item, ret.task.item)
        ELSE /\ Len(ret.task.items) = Len(call.task.items)
             /\ \A k \in 1..Len(call.task.items) :
                   FieldsFilled(call.task.items[k], ret.task.items[k])

\* C2's case: an album task of two items with nothing set, handled with both
\* inferences on: the second item got a title, the album "(HD)" and the
\* artist "Ab"
C2_Witness ==
    /\ Handler
    /\ infer_album /\ infer_artist
    /\ ~TakesItem(call.task)
    /\ Len(call.task.items) = 2
    /\ call.task.items[2].title = <<>>
    /\ call.task.items[2].album = <<>>
    /\ ret.task.items[2].title # <<>>
    /\ ret.task.items[2].album = HDDir
    /\ ret.task.items[2].artist = AbDir

CleanTitleDone == ret.fn = "get_clean_title"

ThePath == Path(call.item.path)

\* the titles T of C3: no bracket, no keyword, no separator, no artist name
PlainTitles ==
    {T \in Strings({<<" ">>, <<"x">>}, MaxTokens - 1) : \E i \in 1..Len(T) : T[i] = "x"}

\* Artist/Album/<T> (Official Audio).mp3
OfficialAudioPath(T) == <<"A","r","t","i","s","t","/","A","l","b","u","m","/">> \o T \o OfficialAudio \o Ext

\* what C3 says of the path made from T
TrackOf(T) ==
    (/\ CleanTitleDone
     /\ infer_album /\ infer_artist
     /\ call.item.path = OfficialAudioPath(T))
    => /\ track_title_from_path(ThePath) = T \o OfficialAudio
       /\ ret.raw_title = T \o OfficialAudio
       /\ album_name_from_path(ThePath) = <<"A","l","b","u","m">>
       /\ artist_name_from_path(ThePath) = <<"A","r","t","i","s","t">>
       /\ ret.value = T

\* C3 as claimed: for every such T the clean title is exactly T
C3_CleanTitleIsT == \A T \in PlainTitles : TrackOf(T)

\* C3, amended: for Artist/Album/<T> (Official Audio).<ext> with T free of
\* brackets, keywords, separators and the artist name, and with no leading
\* or trailing whitespace, the three path functions return
\* "<T> (Official Audio)", "Album" and "Artist", and get_clean_title with
\* both inferences on returns T.
C3_CleanTitleIsTrimmedT ==
    \A T \in {U \in PlainTitles : Strip(U) = U} : TrackOf(T)

\* C3's case: the clean title of Artist/Album/x x (Official Audio).mp3
C3_Witness ==
    /\ CleanTitleDone
    /\ infer_album /\ infer_artist
    /\ call.item.path = OfficialAudioPath(<<"x"," ","x">>)
    /\ ret.value = <<"x"," ","x">>

ReplaceJunkDone == ret.fn = "_replace_junk"

\* one separator character inside optional whitespace, and nothing else
SeparatorOnly(s) == Len(Strip(s)) = 1 /\ Strip(s)[1] \in Separators

\* C4: a title that is only a separator and whitespace, such as " - ",
\* is cleaned to the empty string.
C4_SeparatorOnlyCleansToEmpty ==
    (ReplaceJunkDone /\ SeparatorOnly(call.title)) => ret.value = <<>>

\* C5 as claimed: with no junk pattern, _replace_junk returns the title
\* trimmed and otherwise unchanged.
C5_NoPatternsOnlyTrims ==
    (ReplaceJunkDone /\ call.patterns = <<>>) => ret.value = Strip(call.title)

\* the trimmed title begins or ends with a separator character
AtSeparator(s) ==
    s # <<>> /\ (s[1] \in Separators \/ s[Len(s)] \in Separators)

\* C5, amended: with no junk pattern, _replace_junk returns the trimmed
\* title unchanged whenever the trimmed title neither begins nor ends with a
\* separator character (-, _ or |).
C5_NoPatternsTrimsAwayFromSeparators ==
    (ReplaceJunkDone /\ call.patterns = <<>> /\ ~AtSeparator(Strip(call.title)))
    => ret.value = Strip(call.title)

\* C5's case: a title with whitespace around it and no separator at its
\* ends, cleaned with no pattern: the result is shorter than the title
C5_Witness ==
    /\ ReplaceJunkDone
    /\ call.patterns = <<>>
    /\ call.title = <<" ","x"," ">>
    /\ ret.value = <<"x">>

\* s without the first occurrence of old
WithoutFirst(s, old) ==
    IF FindFrom(s, old, 1) = 0 THEN s
    ELSE Slice(s, 1, FindFrom(s, old, 1) - 1)
         \o Slice(s, FindFrom(s, old, 1) + Len(old), Len(s))

\* s without every occurrence of old, found one after the other from the
\* left, each search starting after the occurrence before it
RECURSIVE WithoutEvery(_, _)
WithoutEvery(s, old) ==
    IF old = <<>> \/ FindFrom(s, old, 1) = 0 THEN s
    ELSE Slice(s, 1, FindFrom(s, old, 1) - 1)
         \o WithoutEvery(Slice(s, FindFrom(s, old, 1) + Len(old), Len(s)), old)

CloserOf(c) == IF c = "(" THEN ")" ELSE IF c = "[" THEN "]" ELSE "}"

\* the text is one bracketed group: an opener, no closer before the end,
\* and at the end the closer of that opener
OneBracketedSpan(junk) ==
    /\ Len(junk) >= 2
    /\ junk[1] \in Openers
    /\ FirstCloser(junk, 1) = Len(junk)
    /\ junk[Len(junk)] = CloserOf(junk[1])

\* C8: the junk a catalog pattern captures is a single bracketed span, so a
\* bracketed group without a keyword is never part of what is deleted.
C8_JunkIsOneBracketedSpan ==
    ReplaceJunkDone =>
        \A k \in 1..Len(ret.steps) :
            (ret.steps[k].pattern.kind = "bracket" /\ ret.steps[k].found)
            => OneBracketedSpan(ret.steps[k].junk)

\* C9: what _replace_junk returns has no leading and no trailing whitespace.
C9_NoOuterWhitespace ==
    ReplaceJunkDone =>
        \/ ret.value = <<>>
        \/ ~IsSpace(ret.value[1]) /\ ~IsSpace(ret.value[Len(ret.value)])

\* every pattern built for this call was built from an empty name
OnlyEmptyNames == \A k \in 1..Len(ret.patterns) : ret.patterns[k].name = <<>>

\* C10: when the directory names the patterns are built from are empty, the
\* clean title is what the static catalog alone makes of the file name.
C10_EmptyNamesDeleteNothing ==
    (CleanTitleDone /\ OnlyEmptyNames)
    => ret.value = _replace_junk(ret.raw_title, YOUTUBE_TITLE_JUNK)

\* the patterns a call of get_clean_title would build with no cache at all
FreshPatterns ==
    (IF infer_album THEN <<AlbumPattern(album_name_from_path(ThePath))>> ELSE <<>>)
    \o (IF infer_artist THEN <<ArtistPattern(artist_name_from_path(ThePath))>> ELSE <<>>)

\* the keys of a cache, the least recently used first
Keys(cache) == [k \in 1..Len(cache) |-> cache[k].key]

\* the n most recently requested names, the least recent of them first
MostRecent(uses, n) == Slice(uses, Len(uses) - n + 1, Len(uses))

\* the cache holds exactly the names requested most recently, as many as fit
HoldsMostRecent(cache, uses) ==
    /\ Len(cache) <= 64
    /\ Len(cache) = (IF Len(uses) < 64 THEN Len(uses) ELSE 64)
    /\ Keys(cache) = MostRecent(uses, Len(cache))

\* C6: whatever the sequence of calls, each builder returns a pattern that
\* matches as a freshly built one does (hit, miss and re-build after an
\* eviction alike); neither cache ever holds more than 64 entries, and the
\* entries it holds are the most recently requested names, so that the one
\* evicted for a 65th name is the least recently used.
C6_CacheIsTransparentLru ==
    /\ HoldsMostRecent(album_cache, album_uses)
    /\ HoldsMostRecent(artist_cache, artist_uses)
    /\ CleanTitleDone =>
          /\ ret.patterns = FreshPatterns
          /\ \A k \in 1..Len(ret.patterns) :
                Search(ret.patterns[k], ret.raw_title)
                    = Search(FreshPatterns[k], ret.raw_title)
          /\ (infer_album \/ infer_artist) => ret.value = <<"x">>

\* C6's case: more than 64 names were requested, name 1 was evicted from
\* both caches, and the call for file 1 built both patterns again
C6_Witness ==
    /\ CleanTitleDone
    /\ infer_album /\ infer_artist
    /\ Len(album_uses) > 64
    /\ Len(album_cache) = 64
    /\ call.item.path = PathOf(1)
    /\ ret.hits = <<FALSE, FALSE>>
    /\ ret.value = <<"x">>

====
